---- MODULE Spec2Model ----
(***************************************************************************)
(* State-machine model of rstun's client tunnel-lifecycle engine           *)
(* (src/src/client.rs): the state table behind Arc<Mutex<State>>, the      *)
(* tunnel workers (connect_and_serve), login, the unified migration task,  *)
(* the traffic reporter and stop / stop_async.                             *)
(*                                                                         *)
(* Every critical section of the state-table mutex is one atomic action.   *)
(* The one place where the guard lives across an await (stop_async,        *)
(* lines 277-294) is modelled with inner_state_lock = "stop_async": while  *)
(* it is held, tasks that call lock() block the runtime thread they run on *)
(* (std::sync::Mutex), and the runtime has `workers` threads.              *)
(***************************************************************************)
EXTENDS Naturals, FiniteSets, Sequences, TLC

(* ------------------------------ bounds -------------------------------- *)
\* runtime worker threads (config.workers, Builder::worker_threads)
workers == 2
\* migration tasks that can exist at the same time
MaxMigTasks == 2
\* calls of stop / stop_async made by the host
MaxStopCalls == 2
\* datagrams counted on one connection
MaxTraffic == 2

(* --------------------------- configuration ---------------------------- *)
\* indices of config.tunnels
Tunnels == {1, 2}
\* TunnelConfig.local_server_addr of tunnel w (distinct per tunnel)
local_server_addr(w) == w
Addrs == {local_server_addr(w) : w \in Tunnels}
\* (mode, upstream_type) of the configured tunnels: the configurations explored
TunnelConfigs ==
    { [t \in Tunnels |-> IF t = 1 THEN [mode |-> "Out", upstream_type |-> "Tcp"]
                                  ELSE [mode |-> "In",  upstream_type |-> "Udp"]],
      [t \in Tunnels |-> IF t = 1 THEN [mode |-> "Out", upstream_type |-> "Udp"]
                                  ELSE [mode |-> "In",  upstream_type |-> "Tcp"]] }
HopIntervals == {0, 1}

\* config.cipher: one identifier SelectedCipherSuite::from_str accepts, one it rejects
Ciphers == {"chacha20-poly1305", "rot13"}
\* SelectedCipherSuite::from_str(c).is_ok()
CipherParses(c) == c = "chacha20-poly1305"

\* config.cert_path: none, a PEM file with a certificate, a PEM file without any, and a
\* path that cannot be read
CertPaths == {"", "ca.pem", "empty.pem", "missing.pem"}
\* pem_util::load_certificates_from_pem: Ok with the number of certificates read, or Err
load_certificates_from_pem(path) ==
    CASE path = "ca.pem" -> [ok |-> TRUE, certs |-> 1]
      [] path = "empty.pem" -> [ok |-> TRUE, certs |-> 0]
      [] OTHER -> [ok |-> FALSE, certs |-> 0]

\* config.server_addr as the sequence of its tokens, ":" "[" "]" being single characters
Ipv4Literals == {"192.0.2.1"}
Ipv6Literals == {<<":", ":", "1">>}
Hostnames == {"peer.example"}
Ports == {"4000"}
ServerAddrs ==
    {<<h>> : h \in Hostnames \cup Ipv4Literals}
        \cup {<<h, ":", port>> : h \in Hostnames \cup Ipv4Literals, port \in Ports}
        \cup Ipv6Literals
        \cup {<<"[">> \o ip \o <<"]", ":", port>> : ip \in Ipv6Literals, port \in Ports}

\* the verifier of the rustls::ClientConfig that parse_client_config_and_domain builds
Verifiers == {"platform", "insecure", "pinned"}
\* what TunnelMessage::recv yields in login: a message of the peer (a success response,
\* RespFailure, or another message), or an error of send / recv
LoginReplies == {"RespSuccess", "RespFailure", "ReqLogin", "RecvError"}
\* resp.is_resp_success() of line 680: the answers login takes for a success
is_resp_success(resp) == resp = "RespSuccess"
\* no LoginConfig held: the connect closure is not between prepare_login_config and its end
NoLoginConfig == [verifier |-> "none", domain |-> <<>>,
                  max_idle_timeout |-> <<>>, keep_alive_interval |-> <<>>]

\* ClientConfig.quic_timeout_ms is a u64, written here as four 16-bit limbs, lowest
\* first; the u32 of line 612 is two limbs
LimbBase == 65536
LimbSamples == {0, 3, 65535}
TypicalTimeout == <<30000, 0, 0, 0>>
QuicTimeouts ==
    {<<a, b, c, d>> : a \in LimbSamples, b \in LimbSamples, c \in LimbSamples, d \in LimbSamples}
        \cup {TypicalTimeout}

RECURSIVE Norm(_)
\* a number without its leading zero limbs
Norm(x) == IF x = <<>> THEN <<>>
           ELSE IF x[Len(x)] = 0 THEN Norm(SubSeq(x, 1, Len(x) - 1)) ELSE x

RECURSIVE Mul2(_, _)
\* 2 * x + carry, exact: one limb longer than x
Mul2(x, carry) ==
    IF x = <<>> THEN <<carry>>
    ELSE <<(2 * Head(x) + carry) % LimbBase>> \o Mul2(Tail(x), (2 * Head(x) + carry) \div LimbBase)

RECURSIVE Div3(_, _)
\* (rem * 2^(16 * Len(x)) + x) / 3, rounded down, by long division from the top limb
Div3(x, rem) ==
    IF x = <<>> THEN <<>>
    ELSE LET cur == rem * LimbBase + x[Len(x)]
         IN  Div3(SubSeq(x, 1, Len(x) - 1), cur % 3) \o <<cur \div 3>>

\* self.config.quic_timeout_ms as u32 (line 612): the low 32 bits
as_u32(q) == SubSeq(q, 1, 2)
\* self.config.quic_timeout_ms * 2 in u64 (line 616) leaves the 64 bits
mul2_overflows(q) == Mul2(q, 0)[5] # 0
\* ... and what a build without overflow checks computes for it
wrapping_mul2(q) == SubSeq(Mul2(q, 0), 1, 4)

\* the local client connections a TCP listener accepts
MaxTcpStreams == 2
TcpStreams == 1..MaxTcpStreams

ClientState == {"Idle", "Connecting", "Connected", "LoggingIn", "Tunneling",
                "Stopping", "Terminated"}

None == 0
MigTasks == 1..MaxMigTasks
\* the task id of the traffic reporter, after the tunnel workers
Reporter == Cardinality(Tunnels) + 1
Procs == Tunnels \cup {Reporter}

\* TunnelTraffic::default()
ZeroTraffic == [rx_bytes |-> 0, tx_bytes |-> 0, rx_dgrams |-> 0, tx_dgrams |-> 0]
TrafficFields == {"rx_bytes", "tx_bytes", "rx_dgrams", "tx_dgrams"}
AddTraffic(a, b) == [f \in TrafficFields |-> a[f] + b[f]]

VARIABLES
    tunnels,                \* config.tunnels (immutable)
    hop_interval_seconds,   \* config.hop_interval_seconds (immutable)
    cipher,                 \* config.cipher (immutable)
    cert_path,              \* config.cert_path (immutable)
    server_addr,            \* config.server_addr (immutable), as a sequence of tokens
    quic_timeout_ms,        \* config.quic_timeout_ms (immutable), as limbs
    client_state,           \* State.client_state
    connections,            \* State.connections: Addr -> owner of the connection or None
    endpoints,              \* State.endpoints:   Addr -> owner of the endpoint or None
    tcp_servers,            \* State.tcp_servers (key set)
    udp_servers,            \* State.udp_servers (key set)
    total_traffic_data,     \* State.total_traffic_data
    on_info_report_enabled, \* State.on_info_report_enabled
    migration_stop_sender,  \* State.migration_stop_sender: channel of a task, or None
    migration_handle,       \* State.migration_handle: task, or None
    inner_state_lock,       \* "free", or "stop_async" while the guard lives across the await
    blocked,                \* runtime tasks blocked in Mutex::lock (each pins a thread)
    wpc,                    \* position of each tunnel worker in connect_and_serve
    wtask,                  \* task being started by a worker in start_unified_migration_task
    login_cfg,              \* the LoginConfig a worker's connect closure holds
    login_resp,             \* the TunnelMessage login has received and not yet handled
    login_err,              \* the Err of a worker's last connect attempt, until it retries
    pending_tcp_stream,     \* the pending_tcp_stream slot of each worker's loop
    close_reason,           \* Connection::close_reason() of each worker's current connection
    close_1_called,         \* connections on which close(VarInt 1, b"") has run
    stats,                  \* Connection::stats() of each worker's current connection
    mig,                    \* migration tasks: state and stop channel
    rebinds,                \* registered endpoints that Endpoint::rebind has rebound
    rpc,                    \* position of the traffic reporter
    racc,                   \* the reporter's local rx/tx accumulators
    last_traffic,           \* last TunnelTraffic record delivered to the listener
    posted,                 \* kinds of the records the latest step delivered to the listener
    state_record,           \* the ClientState of the last TunnelState record delivered
    spc,                    \* position of the host thread in stop / stop_async
    joining,                \* JoinHandle awaited by stop_async
    tasks,                  \* JoinSet of stop_async
    detached,               \* tasks spawned by stop() with tokio::spawn
    stop_calls,             \* number of stop / stop_async calls made
    last_returned,          \* which of stop / stop_async returned last
    after_return            \* {state table at that return}, emptied when a worker acts

vars == <<tunnels, hop_interval_seconds, cipher, cert_path, server_addr, quic_timeout_ms,
          login_cfg, login_resp, login_err, pending_tcp_stream, client_state, connections, endpoints,
          tcp_servers, udp_servers, total_traffic_data, on_info_report_enabled,
          migration_stop_sender, migration_handle, inner_state_lock, blocked,
          wpc, wtask, close_reason, close_1_called, stats, mig, rebinds,
          rpc, racc, last_traffic, posted, state_record, spc, joining, tasks, detached, stop_calls,
          last_returned, after_return>>

\* groups used in UNCHANGED
cfgVars   == <<tunnels, hop_interval_seconds, cipher, cert_path, server_addr, quic_timeout_ms>>
loginVars == <<login_cfg, login_resp, login_err>>
tableMaps == <<connections, endpoints, tcp_servers, udp_servers>>
migTable  == <<migration_stop_sender, migration_handle>>
connVars  == <<close_reason, close_1_called, stats>>
repVars   == <<rpc, racc, last_traffic>>
stopVars  == <<spc, joining, tasks, stop_calls, last_returned>>

\* the fields of State that stop / stop_async are said to leave alone on a second call
StateTable ==
    [client_state |-> client_state, connections |-> connections,
     endpoints |-> endpoints, tcp_servers |-> tcp_servers,
     udp_servers |-> udp_servers, migration_stop_sender |-> migration_stop_sender,
     migration_handle |-> migration_handle]

\* State::new()
StateNew ==
    /\ client_state = "Idle"
    /\ connections = [a \in Addrs |-> None]
    /\ endpoints = [a \in Addrs |-> None]
    /\ tcp_servers = {}
    /\ udp_servers = {}
    /\ total_traffic_data = ZeroTraffic
    /\ on_info_report_enabled = FALSE
    /\ migration_stop_sender = None
    /\ migration_handle = None

FreeTask == [st |-> "free", chan |-> "open"]

\* connect_and_serve_async: one worker spawned for each of the first n tunnels
Spawned(n) == [w \in Tunnels |-> IF w <= n THEN "connect" ELSE "absent"]

\* Client::new followed by connect_and_serve_async: the workers and the reporter spawned
Init ==
    /\ tunnels \in TunnelConfigs
    /\ hop_interval_seconds \in HopIntervals
    /\ cipher \in Ciphers
    /\ cert_path \in CertPaths
    /\ server_addr \in ServerAddrs
    /\ quic_timeout_ms \in QuicTimeouts
    /\ login_cfg = [w \in Tunnels |-> NoLoginConfig]
    /\ login_resp = [w \in Tunnels |-> "none"]
    /\ login_err = [w \in Tunnels |-> "none"]
    /\ pending_tcp_stream = [w \in Tunnels |-> None]
    /\ StateNew
    /\ inner_state_lock = "free"
    /\ blocked = {}
    /\ wpc \in {Spawned(n) : n \in 1..Cardinality(Tunnels)}
    /\ wtask = [w \in Tunnels |-> None]
    /\ close_reason = [w \in Tunnels |-> "unborn"]
    /\ close_1_called = {}
    /\ stats = [w \in Tunnels |-> ZeroTraffic]
    /\ mig = [t \in MigTasks |-> FreeTask]
    /\ rebinds = {}
    /\ rpc = "tick"
    /\ racc = ZeroTraffic
    /\ last_traffic = ZeroTraffic
    /\ posted = {}
    /\ state_record = "none"
    /\ spc = "idle"
    /\ joining = None
    /\ tasks = {}
    /\ detached = {}
    /\ stop_calls = 0
    /\ last_returned = "none"
    /\ after_return = {}


(* ------------------------------ helpers ------------------------------- *)
\* Mutex::lock succeeds at once only while no guard is alive
LockFree == inner_state_lock = "free"
\* a runtime thread is left to poll a task or to drive the timers
ThreadAvailable == Cardinality(blocked) < workers
\* a runtime task can take a step that does not lock the state table
CanRun(p) == p \notin blocked /\ ThreadAvailable
\* a runtime task enters and leaves a critical section of the state table
CanLock(p) == LockFree

\* Client::should_quit
should_quit == client_state \in {"Stopping", "Terminated"}

\* the kinds of record of TunnelInfoType
TunnelInfoTypes == {"TunnelState", "TunnelLog", "TunnelTraffic"}

\* post_tunnel_info gone wrong: the records reach the listener whatever the flag says
post_tunnel_info_ungated(kinds) == posted' = kinds

\* State::post_tunnel_info for each record of the step: handed to the bridge, and so to
\* the listener, only if on_info_report_enabled
post_tunnel_info(kinds) == posted' = IF on_info_report_enabled THEN kinds ELSE {}

\* set_and_post_tunnel_state gone wrong: the record is built before the assignment
post_and_set_tunnel_state(s) ==
    /\ state_record' = IF on_info_report_enabled THEN client_state ELSE state_record
    /\ client_state' = s

\* Client::set_and_post_tunnel_state, one critical section: the assignment, and the
\* TunnelState record built from the same value (its delivery is counted in posted by
\* the calling step)
set_and_post_tunnel_state(s) ==
    /\ client_state' = s
    /\ state_record' = IF on_info_report_enabled THEN s ELSE state_record

\* Client::is_ip_addr: addr.parse::<SocketAddr>().is_ok(), that is "v4:port" or "[v6]:port"
is_ip_addr(addr) ==
    LET n == Len(addr)
    IN  \/ n = 3 /\ addr[1] \in Ipv4Literals /\ addr[2] = ":" /\ addr[3] \in Ports
        \/ /\ n >= 5
           /\ addr[1] = "[" /\ addr[n - 2] = "]" /\ addr[n - 1] = ":" /\ addr[n] \in Ports
           /\ SubSeq(addr, 2, n - 3) \in Ipv6Literals

\* Client::extract_domain_or_ip: server_addr up to its last ':' (rfind), or all of it
extract_domain_or_ip(addr) ==
    LET colons == {i \in 1..Len(addr) : addr[i] = ":"}
    IN  IF colons = {} THEN addr
        ELSE SubSeq(addr, 1, (CHOOSE i \in colons : \A j \in colons : j <= i) - 1)

\* Client::parse_client_config_and_domain: Ok((client_config, domain)) or Err
parse_client_config_and_domain ==
    IF ~CipherParses(cipher)
    THEN [ok |-> FALSE, err |-> "invalid cipher"]
    ELSE IF cert_path = ""
    THEN IF ~is_ip_addr(server_addr)
         THEN [ok |-> TRUE, verifier |-> "platform",
               domain |-> extract_domain_or_ip(server_addr)]
         ELSE [ok |-> TRUE, verifier |-> "insecure", domain |-> <<"localhost">>]
    ELSE IF ~load_certificates_from_pem(cert_path).ok
    THEN [ok |-> FALSE, err |-> "failed to read from cert file"]
    ELSE IF load_certificates_from_pem(cert_path).certs = 0
    THEN [ok |-> FALSE, err |-> "No certificates found in provided file"]
    ELSE [ok |-> TRUE, verifier |-> "pinned",
          domain |-> extract_domain_or_ip(server_addr)]

\* Client::parse_server_addr can return Ok: server_addr parses as a SocketAddr, or what
\* stands before its last ':' is a name or an address the resolvers can look up
parse_server_addr ==
    \/ is_ip_addr(server_addr)
    \/ extract_domain_or_ip(server_addr) \in {<<h>> : h \in Hostnames \cup Ipv4Literals}

Mode(w) == tunnels[w].mode
Upstream(w) == tunnels[w].upstream_type
\* the server map an Out tunnel of this upstream type uses
ServerKeys(w) == IF Upstream(w) = "Tcp" THEN tcp_servers ELSE udp_servers

\* the connection handle a worker held is dropped: its Connection is gone, and a
\* close task still holding a clone of it has nothing left to act on
DropConn(w) ==
    /\ close_reason' = [close_reason EXCEPT ![w] = "unborn"]
    /\ close_1_called' = close_1_called \ {w}
    /\ stats' = [stats EXCEPT ![w] = ZeroTraffic]
    /\ tasks' = tasks \ {<<"close", w>>}
    /\ detached' = detached \ {<<"close", w>>}

\* the endpoint a worker registered is dropped
DropEndpoint(w) ==
    rebinds' = rebinds \ {local_server_addr(w)}

\* migration task slots: an exited task nobody holds a handle of is forgotten
Reap(m, handle, join, wt) ==
    [t \in MigTasks |->
        IF m[t].st = "exited" /\ handle # t /\ join # t /\ (\A w \in Tunnels : wt[w] # t)
        THEN FreeTask ELSE m[t]]
FreeSlots == {t \in MigTasks : mig[t].st = "free"}
NewSlot == CHOOSE t \in FreeSlots : \A u \in FreeSlots : t <= u

\* what every step of a tunnel worker leaves alone
WorkerFrame ==
    /\ UNCHANGED <<cfgVars, total_traffic_data, on_info_report_enabled,
                   inner_state_lock, blocked, rebinds, repVars,
                   spc, joining, stop_calls, last_returned>>
    /\ after_return' = {}

(* --------------------------- tunnel worker ---------------------------- *)
\* RetryOrQuit gone wrong: the retry gives up after a failed attempt
RetryGiveUp(w) ==
    wpc' = [wpc EXCEPT ![w] = "done"]

\* the retry of the connect closure after a failed attempt: .when(|_| !self.should_quit())
\* backs off and tries again; once should_quit() holds the Err leaves the loop (through
\* the break of line 404 or the Err arm of line 466) and the worker posts its quit log
RetryOrQuit(w) ==
    wpc' = [wpc EXCEPT ![w] = IF should_quit THEN "done" ELSE "backoff"]

\* the retry's .sleep(tokio::time::sleep) is over: the connect closure is called again
Backoff(w) ==
    /\ posted' = {}
    /\ UNCHANGED pending_tcp_stream
    /\ wpc[w] = "backoff" /\ CanRun(w)
    /\ wpc' = [wpc EXCEPT ![w] = "connect"]
    /\ login_resp' = [login_resp EXCEPT ![w] = "none"]
    /\ login_err' = [login_err EXCEPT ![w] = "none"]
    /\ UNCHANGED <<client_state, state_record, tableMaps, migTable, wtask, login_cfg, connVars, mig,
                   tasks, detached>>
    /\ WorkerFrame

\* connect closure: prepare_login_config fails (a configuration error, or the server
\* address does not resolve), or Endpoint::client fails
ConnectFail(w) ==
    /\ post_tunnel_info(IF should_quit THEN {"TunnelLog"} ELSE {})
    /\ UNCHANGED pending_tcp_stream
    /\ wpc[w] = "connect" /\ CanLock(w)
    /\ RetryOrQuit(w)
    /\ login_err' = [login_err EXCEPT ![w] = "connect failed"]
    /\ UNCHANGED <<client_state, state_record, tableMaps, migTable, wtask, login_cfg, login_resp,
                   connVars, mig, tasks, detached>>
    /\ WorkerFrame

\* prepare_login_config, lines 610-618: the idle timeout and the keep-alive interval set
\* on the TransportConfig, <<>> for a setting left at its default
transport_cfg ==
    IF Norm(quic_timeout_ms) # <<>>
    THEN [max_idle_timeout |-> <<Norm(as_u32(quic_timeout_ms))>>,
          keep_alive_interval |-> <<Norm(Div3(wrapping_mul2(quic_timeout_ms), 0))>>]
    ELSE [max_idle_timeout |-> <<>>, keep_alive_interval |-> <<>>]

\* prepare_login_config in a build with overflow checks: quic_timeout_ms * 2 panics and
\* the worker's task is gone
PrepareOverflow(w) ==
    /\ posted' = {}
    /\ wpc[w] = "connect" /\ CanRun(w)
    /\ mul2_overflows(quic_timeout_ms)
    /\ wpc' = [wpc EXCEPT ![w] = "panicked"]
    /\ UNCHANGED <<client_state, state_record, tableMaps, migTable, wtask, loginVars, pending_tcp_stream, connVars, mig,
                   tasks, detached>>
    /\ WorkerFrame

\* connect closure: prepare_login_config is Ok; login: set_and_post_tunnel_state(Connecting)
\* and the "connecting" log
LoginConnecting(w) ==
    /\ post_tunnel_info({"TunnelState", "TunnelLog"})
    /\ UNCHANGED pending_tcp_stream
    /\ wpc[w] = "connect" /\ CanLock(w)
    /\ parse_server_addr
    /\ parse_client_config_and_domain.ok
    /\ login_cfg' = [login_cfg EXCEPT ![w] =
                        [verifier |-> parse_client_config_and_domain.verifier,
                         domain |-> parse_client_config_and_domain.domain,
                         max_idle_timeout |-> transport_cfg.max_idle_timeout,
                         keep_alive_interval |-> transport_cfg.keep_alive_interval]]
    /\ set_and_post_tunnel_state("Connecting")
    /\ wpc' = [wpc EXCEPT ![w] = "handshake"]
    /\ UNCHANGED <<tableMaps, migTable, wtask, login_resp, login_err, connVars, mig,
                   tasks, detached>>
    /\ WorkerFrame

\* login: endpoint.connect(..)?.await? fails
HandshakeFail(w) ==
    /\ post_tunnel_info(IF should_quit THEN {"TunnelLog"} ELSE {})
    /\ UNCHANGED pending_tcp_stream
    /\ wpc[w] = "handshake" /\ CanLock(w)
    /\ RetryOrQuit(w)
    /\ login_cfg' = [login_cfg EXCEPT ![w] = NoLoginConfig]
    /\ login_err' = [login_err EXCEPT ![w] = "connect failed"]
    /\ UNCHANGED <<client_state, state_record, tableMaps, migTable, wtask, login_resp, connVars, mig,
                   tasks, detached>>
    /\ WorkerFrame

\* login: endpoint.connect(..)?.await? is Ok(conn): the QUIC connection is open
QuicConnected(w) ==
    /\ posted' = {}
    /\ wpc[w] = "handshake" /\ CanRun(w)
    /\ close_reason' = [close_reason EXCEPT ![w] = "none"]
    /\ wpc' = [wpc EXCEPT ![w] = "open_bi"]
    /\ UNCHANGED <<client_state, state_record, tableMaps, migTable, wtask, loginVars, pending_tcp_stream, close_1_called,
                   stats, mig, tasks, detached>>
    /\ WorkerFrame

\* login: conn.open_bi().await fails ("open bidirectional connection failed"); conn is
\* dropped with the Err
OpenBiFail(w) ==
    /\ post_tunnel_info(IF should_quit THEN {"TunnelLog"} ELSE {})
    /\ UNCHANGED pending_tcp_stream
    /\ wpc[w] = "open_bi" /\ CanLock(w)
    /\ RetryOrQuit(w)
    /\ DropConn(w)
    /\ login_cfg' = [login_cfg EXCEPT ![w] = NoLoginConfig]
    /\ login_err' = [login_err EXCEPT ![w] = "open bidirectional connection failed"]
    /\ UNCHANGED <<client_state, state_record, tableMaps, migTable, wtask, login_resp, mig>>
    /\ WorkerFrame

\* login: the login stream is open; set_and_post_tunnel_state(Connected)
LoginConnected(w) ==
    /\ post_tunnel_info({"TunnelState"})
    /\ wpc[w] = "open_bi" /\ CanLock(w)
    /\ set_and_post_tunnel_state("Connected")
    /\ wpc' = [wpc EXCEPT ![w] = "await_resp"]
    /\ UNCHANGED <<tableMaps, migTable, wtask, loginVars, pending_tcp_stream, connVars, mig, tasks, detached>>
    /\ WorkerFrame

\* login_result gone wrong: only RespFailure is refused
login_result_unless_failure(resp) ==
    IF resp = "RecvError" THEN "send or recv failed"
    ELSE IF resp = "RespFailure" THEN "failed to login"
    ELSE "ok"

\* login, lines 668-694: what login makes of the outcome of TunnelMessage::send / recv
login_result(resp) ==
    IF resp = "RecvError" THEN "send or recv failed"
    ELSE IF resp = "RespFailure" THEN "failed to login"
    ELSE IF ~is_resp_success(resp) THEN "unexpected response"
    ELSE "ok"

\* login: send/recv fails, RespFailure, or a response that is not a success: bail; conn
\* is dropped with the Err
LoginRejected(w) ==
    /\ post_tunnel_info(IF should_quit THEN {"TunnelLog"} ELSE {})
    /\ UNCHANGED pending_tcp_stream
    /\ wpc[w] = "await_resp" /\ CanLock(w)
    /\ \E resp \in LoginReplies :
          /\ login_result(resp) # "ok"
          /\ login_resp' = [login_resp EXCEPT ![w] = resp]
          /\ login_err' = [login_err EXCEPT ![w] = login_result(resp)]
    /\ RetryOrQuit(w)
    /\ DropConn(w)
    /\ login_cfg' = [login_cfg EXCEPT ![w] = NoLoginConfig]
    /\ UNCHANGED <<client_state, state_record, tableMaps, migTable, wtask, mig>>
    /\ WorkerFrame

\* break_after_retry gone wrong: the result of the retry is used without the check
break_after_retry_skipped == FALSE

\* if self.should_quit() { break } of lines 403-405, after the retry has returned
break_after_retry == should_quit

\* login: success response and the "login succeeded" log, Ok((conn, endpoint)); then
\* if self.should_quit() { break } (and the quit log), else on to the Ok arm
LoginSucceeded(w) ==
    /\ post_tunnel_info({"TunnelLog"})
    /\ UNCHANGED pending_tcp_stream
    /\ wpc[w] = "await_resp" /\ close_reason[w] = "none" /\ CanLock(w)
    /\ \E resp \in LoginReplies :
          /\ login_result(resp) = "ok"
          /\ login_resp' = [login_resp EXCEPT ![w] = resp]
    /\ IF ~break_after_retry
       THEN /\ wpc' = [wpc EXCEPT ![w] = "register"]
            /\ UNCHANGED <<connVars, tasks, detached>>
       ELSE /\ wpc' = [wpc EXCEPT ![w] = "done"]
            /\ DropConn(w)
    /\ login_cfg' = [login_cfg EXCEPT ![w] = NoLoginConfig]
    /\ UNCHANGED <<client_state, state_record, tableMaps, migTable, wtask, login_err, mig>>
    /\ WorkerFrame

\* RegisterInsert gone wrong: the endpoint is stored, the connection is not
RegisterSkipConnection(w) ==
    /\ connections' = connections
    /\ endpoints' = [endpoints EXCEPT ![local_server_addr(w)] = w]
\* state.connections.insert(local_server_addr, conn); state.endpoints.insert(..)
RegisterInsert(w) ==
    /\ connections' = [connections EXCEPT ![local_server_addr(w)] = w]
    /\ endpoints' = [endpoints EXCEPT ![local_server_addr(w)] = w]

\* should_start_migration gone wrong: the hop interval is not looked at
start_migration_unless_running == migration_handle = None

\* self.config.hop_interval_seconds > 0 && state.migration_handle.is_none()
should_start_migration ==
    hop_interval_seconds > 0 /\ migration_handle = None

\* Ok((conn, endpoint)): register and decide should_start_migration, in one lock
Register(w) ==
    /\ posted' = {}
    /\ UNCHANGED pending_tcp_stream
    /\ wpc[w] = "register" /\ CanLock(w)
    /\ RegisterInsert(w)
    /\ wpc' = [wpc EXCEPT ![w] =
                  IF should_start_migration THEN "mig_sender" ELSE "serve"]
    /\ login_resp' = [login_resp EXCEPT ![w] = "none"]
    /\ UNCHANGED <<client_state, state_record, tcp_servers, udp_servers, migTable, wtask, login_cfg,
                   login_err, connVars, mig, tasks, detached>>
    /\ WorkerFrame

\* start_unified_migration_task: oneshot::channel(); migration_stop_sender = Some(stop_tx);
\* tokio::spawn of the task, whose first tick is immediate
MigSetSender(w) ==
    /\ posted' = {}
    /\ UNCHANGED pending_tcp_stream
    /\ wpc[w] = "mig_sender" /\ CanLock(w)
    /\ FreeSlots # {}
    /\ LET t == NewSlot
           old == migration_stop_sender
           dropped == IF old = None THEN mig
                      ELSE [mig EXCEPT ![old].chan = "dropped"]
       IN  /\ mig' = [dropped EXCEPT ![t] = [st |-> "select", chan |-> "open"]]
           /\ migration_stop_sender' = t
           /\ wtask' = [wtask EXCEPT ![w] = t]
    /\ wpc' = [wpc EXCEPT ![w] = "mig_handle"]
    /\ UNCHANGED <<client_state, state_record, tableMaps, migration_handle, connVars, tasks, detached>>
    /\ UNCHANGED loginVars
    /\ WorkerFrame

\* start_unified_migration_task: migration_handle = Some(handle)
MigSetHandle(w) ==
    /\ posted' = {}
    /\ UNCHANGED pending_tcp_stream
    /\ wpc[w] = "mig_handle" /\ CanLock(w)
    /\ migration_handle' = wtask[w]
    /\ wtask' = [wtask EXCEPT ![w] = None]
    /\ mig' = Reap(mig, migration_handle', joining, wtask')
    /\ wpc' = [wpc EXCEPT ![w] = "serve"]
    /\ UNCHANGED <<client_state, state_record, tableMaps, migration_stop_sender, connVars, tasks, detached>>
    /\ UNCHANGED loginVars
    /\ WorkerFrame

\* existing_server gone wrong: the stored server is not looked up
existing_server_ignored(w) == FALSE

\* get_or_create_*_server: state.tcp_servers.get(&addr) (resp. udp_servers) is Some
existing_server(w) == local_server_addr(w) \in ServerKeys(w)

\* serve_outbound_*: get_or_create_*_server finds the stored server, or has to bind
GetOrCreateServer(w) ==
    /\ posted' = {}
    /\ wpc[w] = "serve" /\ Mode(w) = "Out" /\ CanLock(w)
    /\ wpc' = [wpc EXCEPT ![w] = IF existing_server(w) THEN "set_tunneling" ELSE "bind"]
    /\ UNCHANGED <<client_state, state_record, tableMaps, migTable, wtask, loginVars, pending_tcp_stream, connVars, mig, tasks, detached>>
    /\ WorkerFrame

\* start_*_server: bind_and_start fails after its retries; the serve routine returns Err
BindFail(w) ==
    /\ posted' = {}
    /\ wpc[w] = "bind" /\ CanRun(w)
    /\ wpc' = [wpc EXCEPT ![w] = "deregister"]
    /\ UNCHANGED <<client_state, state_record, tableMaps, migTable, wtask, loginVars, pending_tcp_stream, connVars, mig, tasks, detached>>
    /\ WorkerFrame

\* start_*_server: bound; the server is stored under addr
BindOk(w) ==
    /\ posted' = {}
    /\ wpc[w] = "bind" /\ CanLock(w)
    /\ IF Upstream(w) = "Tcp"
       THEN /\ tcp_servers' = tcp_servers \cup {local_server_addr(w)}
            /\ UNCHANGED udp_servers
       ELSE /\ udp_servers' = udp_servers \cup {local_server_addr(w)}
            /\ UNCHANGED tcp_servers
    /\ wpc' = [wpc EXCEPT ![w] = "set_tunneling"]
    /\ UNCHANGED <<client_state, state_record, connections, endpoints, migTable, wtask, loginVars, pending_tcp_stream, connVars,
                   mig, tasks, detached>>
    /\ WorkerFrame

\* serve_*: the "start serving" log and set_and_post_tunnel_state(Tunneling)
SetTunneling(w) ==
    /\ post_tunnel_info({"TunnelState", "TunnelLog"})
    /\ \/ wpc[w] = "set_tunneling"
       \/ wpc[w] = "serve" /\ Mode(w) = "In"
    /\ CanLock(w)
    /\ set_and_post_tunnel_state("Tunneling")
    /\ wpc' = [wpc EXCEPT ![w] = "serving"]
    /\ UNCHANGED <<tableMaps, migTable, wtask, loginVars, pending_tcp_stream, connVars, mig, tasks, detached>>
    /\ WorkerFrame

\* TcpTunnel / UdpTunnel (not in this file): the serve routine runs until the
\* connection is closed
ServeFinished(w) == close_reason[w] # "none"

\* TcpTunnel::start / process, UdpTunnel::start / process return
ServeReturn(w) ==
    /\ posted' = {}
    /\ wpc[w] = "serving" /\ CanRun(w)
    /\ ServeFinished(w)
    /\ wpc' = [wpc EXCEPT ![w] = "deregister"]
    /\ UNCHANGED <<client_state, state_record, tableMaps, migTable, wtask, loginVars, pending_tcp_stream, connVars, mig, tasks, detached>>
    /\ WorkerFrame

\* DeregisterRemove gone wrong: the endpoint is removed, the connection is left behind
DeregisterKeep(w) ==
    /\ connections' = connections
    /\ endpoints' = [endpoints EXCEPT ![local_server_addr(w)] = None]
    /\ total_traffic_data' = total_traffic_data
\* state.connections.remove(&local_server_addr); state.endpoints.remove(..)
DeregisterRemove(w) ==
    /\ connections' = [connections EXCEPT ![local_server_addr(w)] = None]
    /\ endpoints' = [endpoints EXCEPT ![local_server_addr(w)] = None]
    /\ total_traffic_data' = total_traffic_data

\* the serve routine returned: deregister; conn and endpoint go out of scope
Deregister(w) ==
    /\ posted' = {}
    /\ wpc[w] = "deregister" /\ CanLock(w)
    /\ DeregisterRemove(w)
    /\ DropConn(w)
    /\ DropEndpoint(w)
    /\ wpc' = [wpc EXCEPT ![w] = "loop_quit"]
    /\ UNCHANGED <<client_state, state_record, tcp_servers, udp_servers, migTable, wtask, loginVars, pending_tcp_stream, mig>>
    /\ UNCHANGED <<cfgVars, on_info_report_enabled, inner_state_lock, blocked,
                   repVars, spc, joining, stop_calls, last_returned>>
    /\ after_return' = {}

\* loop_pending gone wrong: the slot is declared inside the loop
loop_pending_reset(w) ==
    pending_tcp_stream' = [pending_tcp_stream EXCEPT ![w] = None]

\* let mut pending_tcp_stream = None stands before `loop` (line 367): the next
\* iteration finds the slot as the last one left it
loop_pending(w) ==
    UNCHANGED pending_tcp_stream

\* if self.should_quit() { break } at the end of the loop body; the quit log after a break
LoopQuit(w) ==
    /\ post_tunnel_info(IF should_quit THEN {"TunnelLog"} ELSE {})
    /\ wpc[w] = "loop_quit" /\ CanLock(w)
    /\ loop_pending(w)
    /\ wpc' = [wpc EXCEPT ![w] = IF should_quit THEN "done" ELSE "connect"]
    /\ UNCHANGED <<client_state, state_record, tableMaps, migTable, wtask, loginVars, connVars, mig, tasks, detached>>
    /\ WorkerFrame

(* ------------------------ unified migration task ---------------------- *)
\* what every step of a migration task leaves alone
MigFrame ==
    UNCHANGED <<cfgVars, client_state, state_record, tableMaps, total_traffic_data,
                on_info_report_enabled, migTable, inner_state_lock, blocked, wpc, wtask, loginVars, pending_tcp_stream,
                connVars, repVars, stopVars, detached, after_return>>

\* SnapshotOpen gone wrong: every registered endpoint is collected
SnapshotAll ==
    {a \in Addrs : endpoints[a] # None}

\* the filter_map over guard.endpoints: endpoints whose connection is registered and open
SnapshotOpen ==
    {a \in Addrs : /\ endpoints[a] # None
                   /\ connections[a] # None
                   /\ close_reason[connections[a]] = "none"}

\* tick branch, state.try_lock() is Err: warn and continue
MigTickSkip(t) ==
    /\ posted' = {}
    /\ mig[t].st = "select" /\ ThreadAvailable
    /\ ~LockFree
    /\ UNCHANGED <<mig, rebinds>>
    /\ MigFrame

\* tick branch, state.try_lock() is Ok: collect endpoints_to_migrate and drop the guard;
\* then, with no suspension point in between, the for loop: perform_connection_migration
\* rebinds each collected endpoint or logs its failure
MigTick(t) ==
    /\ posted' = {}
    /\ mig[t].st = "select" /\ ThreadAvailable
    /\ LockFree
    /\ LET endpoints_to_migrate == SnapshotOpen
       IN  \E rebound \in SUBSET endpoints_to_migrate :
              rebinds' = rebinds \cup rebound
    /\ UNCHANGED mig
    /\ MigFrame

\* stop_rx branch: the receiver completes on a sent value and on a dropped sender
MigExit(t) ==
    /\ posted' = {}
    /\ mig[t].st = "select" /\ ThreadAvailable
    /\ mig[t].chan # "open"
    /\ mig' = Reap([mig EXCEPT ![t] = [st |-> "exited", chan |-> "open"]],
                   migration_handle, joining, wtask)
    /\ UNCHANGED rebinds
    /\ MigFrame

(* --------------------------- traffic reporter ------------------------- *)
RECURSIVE SumStats(_)
\* the sum of conn.stats() over a set of connections
SumStats(S) ==
    IF S = {} THEN ZeroTraffic
    ELSE LET c == CHOOSE x \in S : TRUE
         IN  AddTraffic(stats[c], SumStats(S \ {c}))

RegisteredConns == {connections[a] : a \in Addrs} \ {None}

RepFrame ==
    UNCHANGED <<cfgVars, client_state, state_record, tableMaps, total_traffic_data,
                on_info_report_enabled, migTable, inner_state_lock, blocked, wpc, wtask, loginVars, pending_tcp_stream,
                connVars, mig, rebinds, stopVars, detached, after_return>>

\* interval.tick(), then the first block: sum the stats of the registered connections
ReporterSumLive ==
    /\ posted' = {}
    /\ rpc = "tick" /\ CanLock(Reporter)
    /\ racc' = SumStats(RegisteredConns)
    /\ rpc' = "add_total"
    /\ UNCHANGED last_traffic
    /\ RepFrame

\* second block: add total_traffic_data
ReporterAddTotal ==
    /\ posted' = {}
    /\ rpc = "add_total" /\ CanLock(Reporter)
    /\ racc' = AddTraffic(racc, total_traffic_data)
    /\ rpc' = "post"
    /\ UNCHANGED last_traffic
    /\ RepFrame

\* third block: post the TunnelTraffic record; break on Stopping / Terminated
ReporterPost ==
    /\ post_tunnel_info({"TunnelTraffic"})
    /\ rpc = "post" /\ CanLock(Reporter)
    /\ last_traffic' = IF on_info_report_enabled THEN racc ELSE last_traffic
    /\ racc' = ZeroTraffic
    /\ rpc' = IF client_state \in {"Stopping", "Terminated"} THEN "exited" ELSE "tick"
    /\ RepFrame

(* ------------------------- stop and stop_async ------------------------ *)
\* what every step of stop / stop_async leaves alone
StopFrame ==
    UNCHANGED <<cfgVars, total_traffic_data, on_info_report_enabled, wpc, wtask, loginVars, pending_tcp_stream,
                connVars, rebinds, repVars>>

\* the shutdown and close tasks scheduled for the registered servers and connections
ShutdownTasks ==
    {<<"tcp", a>> : a \in tcp_servers} \cup {<<"udp", a>> : a \in udp_servers}
        \cup {<<"close", c>> : c \in RegisteredConns}

\* sender.send(()) / drop of the sender stored in the state table
SignalStop(m, how) ==
    IF migration_stop_sender = None THEN m
    ELSE [m EXCEPT ![migration_stop_sender].chan = how]

\* stop_async is called: set_and_post_tunnel_state(Stopping)
StopAsyncBegin ==
    /\ post_tunnel_info({"TunnelState"})
    /\ spc = "idle" /\ stop_calls < MaxStopCalls /\ LockFree
    /\ set_and_post_tunnel_state("Stopping")
    /\ stop_calls' = stop_calls + 1
    /\ spc' = "sa_signal"
    /\ UNCHANGED <<tableMaps, migTable, inner_state_lock, blocked, mig, joining, tasks,
                   detached, last_returned, after_return>>
    /\ StopFrame

\* stop_async, first lock: migration_stop_sender.take() and send
SaSignal ==
    /\ posted' = {}
    /\ spc = "sa_signal" /\ LockFree
    /\ mig' = SignalStop(mig, "sent")
    /\ migration_stop_sender' = None
    /\ spc' = "sa_join"
    /\ UNCHANGED <<client_state, state_record, tableMaps, migration_handle, inner_state_lock, blocked,
                   joining, tasks, detached, stop_calls, last_returned, after_return>>
    /\ StopFrame

\* stop_async, second lock: migration_handle.take(); the guard stays alive over the await
SaJoin ==
    /\ posted' = {}
    /\ spc = "sa_join" /\ LockFree
    /\ IF migration_handle # None
       THEN /\ joining' = migration_handle
            /\ migration_handle' = None
            /\ inner_state_lock' = "stop_async"
            /\ spc' = "sa_await"
       ELSE /\ spc' = "sa_clear"
            /\ UNCHANGED <<joining, migration_handle, inner_state_lock>>
    /\ UNCHANGED <<client_state, state_record, tableMaps, migration_stop_sender, blocked, mig, tasks,
                   detached, stop_calls, last_returned, after_return>>
    /\ StopFrame

\* the awaited migration task has finished: Ok(..) of the timeout; the guard is dropped
SaAwaitDone ==
    /\ posted' = {}
    /\ spc = "sa_await"
    /\ mig[joining].st = "exited"
    /\ joining' = None
    /\ mig' = Reap(mig, migration_handle, None, wtask)
    /\ inner_state_lock' = "free"
    /\ blocked' = {}
    /\ spc' = "sa_clear"
    /\ UNCHANGED <<client_state, state_record, tableMaps, migTable, tasks, detached, stop_calls,
                   last_returned, after_return>>
    /\ StopFrame

\* timeout(5s, handle) elapses: Err(_); the handle is dropped, the guard is dropped
SaAwaitTimeout ==
    /\ posted' = {}
    /\ spc = "sa_await"
    /\ ThreadAvailable
    /\ joining' = None
    /\ mig' = Reap(mig, migration_handle, None, wtask)
    /\ inner_state_lock' = "free"
    /\ blocked' = {}
    /\ spc' = "sa_clear"
    /\ UNCHANGED <<client_state, state_record, tableMaps, migTable, tasks, detached, stop_calls,
                   last_returned, after_return>>
    /\ StopFrame

\* ClearMaps gone wrong: the endpoints are cleared, the connections are left behind
ClearEndpoints ==
    /\ tcp_servers' = {}
    /\ udp_servers' = {}
    /\ connections' = connections
    /\ endpoints' = [a \in Addrs |-> None]
\* tcp_servers.clear(); udp_servers.clear(); connections.clear(); endpoints is not
\* touched
ClearMaps ==
    /\ tcp_servers' = {}
    /\ udp_servers' = {}
    /\ connections' = [a \in Addrs |-> None]
    /\ endpoints' = endpoints

\* stop_async, third lock: schedule shutdown and close tasks, clear the table
SaClear ==
    /\ posted' = {}
    /\ spc = "sa_clear" /\ LockFree
    /\ tasks' = ShutdownTasks
    /\ ClearMaps
    /\ migration_handle' = None
    /\ migration_stop_sender' = None
    /\ mig' = Reap(SignalStop(mig, "dropped"), None, joining, wtask)
    /\ spc' = "sa_tasks"
    /\ UNCHANGED <<client_state, state_record, inner_state_lock, blocked, joining, detached,
                   stop_calls, last_returned, after_return>>
    /\ StopFrame

\* join_next times out: break; the JoinSet is dropped and aborts what is left
SaJoinTimeout ==
    /\ posted' = {}
    /\ spc = "sa_tasks" /\ tasks # {}
    /\ ThreadAvailable
    /\ tasks' = {}
    /\ UNCHANGED <<client_state, state_record, tableMaps, migTable, inner_state_lock, blocked, mig,
                   spc, joining, detached, stop_calls, last_returned, after_return>>
    /\ StopFrame

\* the join loop is over: set_and_post_tunnel_state(Terminated); stop_async returns
SaTerminated ==
    /\ post_tunnel_info({"TunnelState"})
    /\ spc = "sa_tasks" /\ tasks = {} /\ LockFree
    /\ set_and_post_tunnel_state("Terminated")
    /\ spc' = "idle"
    /\ last_returned' = "stop_async"
    /\ UNCHANGED <<tableMaps, migTable, inner_state_lock, blocked, mig, joining, tasks,
                   detached, stop_calls>>
    /\ StopFrame
    /\ after_return' = {StateTable'}

\* stop is called: set_and_post_tunnel_state(Stopping)
StopBegin ==
    /\ post_tunnel_info({"TunnelState"})
    /\ spc = "idle" /\ stop_calls < MaxStopCalls /\ LockFree
    /\ set_and_post_tunnel_state("Stopping")
    /\ stop_calls' = stop_calls + 1
    /\ spc' = "st_clear"
    /\ UNCHANGED <<tableMaps, migTable, inner_state_lock, blocked, mig, joining, tasks,
                   detached, last_returned, after_return>>
    /\ StopFrame

\* stop, its one lock: signal migration, spawn shutdown and close tasks, clear the table
StopClear ==
    /\ posted' = {}
    /\ spc = "st_clear" /\ LockFree
    /\ detached' = detached \cup ShutdownTasks
    /\ ClearMaps
    /\ migration_stop_sender' = None
    /\ migration_handle' = None
    /\ mig' = Reap(SignalStop(mig, "sent"), None, joining, wtask)
    /\ spc' = "st_sleep"
    /\ UNCHANGED <<client_state, state_record, inner_state_lock, blocked, joining, tasks,
                   stop_calls, last_returned, after_return>>
    /\ StopFrame

\* std::thread::sleep(3s) is over: stop returns
StopReturn ==
    /\ posted' = {}
    /\ spc = "st_sleep"
    /\ spc' = "idle"
    /\ last_returned' = "stop"
    /\ after_return' = {StateTable}
    /\ UNCHANGED <<client_state, state_record, tableMaps, migTable, inner_state_lock, blocked, mig,
                   joining, tasks, detached, stop_calls>>
    /\ StopFrame

\* a scheduled task runs: s.shutdown().await.ok(), or c.close(VarInt::from_u32(1), b"")
RunTask(k) ==
    /\ posted' = {}
    /\ k \in tasks \cup detached
    /\ ThreadAvailable
    /\ tasks' = tasks \ {k}
    /\ detached' = detached \ {k}
    /\ IF k[1] = "close"
       THEN /\ close_1_called' = close_1_called \cup {k[2]}
            /\ close_reason' = [close_reason EXCEPT ![k[2]] =
                                   IF @ = "none" THEN "local" ELSE @]
       ELSE UNCHANGED <<close_1_called, close_reason>>
    /\ UNCHANGED <<cfgVars, client_state, state_record, tableMaps, total_traffic_data,
                   on_info_report_enabled, migTable, inner_state_lock, blocked, wpc, wtask, loginVars, pending_tcp_stream,
                   stats, mig, rebinds, repVars, spc, joining, stop_calls, last_returned,
                   after_return>>

(* ------------------------------ environment --------------------------- *)
EnvFrame ==
    UNCHANGED <<cfgVars, client_state, state_record, tableMaps, total_traffic_data, migTable,
                inner_state_lock, wpc, wtask, loginVars, pending_tcp_stream, mig, rebinds, repVars, stopVars, detached,
                after_return>>

\* Client::set_enable_on_info_report, called by the host
SetEnableOnInfoReport(enable) ==
    /\ posted' = {}
    /\ LockFree
    /\ on_info_report_enabled # enable
    /\ on_info_report_enabled' = enable
    /\ UNCHANGED <<blocked, connVars>>
    /\ EnvFrame

\* the peer closes the connection, or it times out
ConnLost(w) ==
    /\ posted' = {}
    /\ close_reason[w] = "none"
    /\ close_reason' = [close_reason EXCEPT ![w] = "lost"]
    /\ UNCHANGED <<on_info_report_enabled, blocked, close_1_called, stats>>
    /\ EnvFrame

\* one UDP datagram of one byte is received (rx) or sent (tx) on an open connection
Traffic(w, dir) ==
    /\ posted' = {}
    /\ close_reason[w] = "none"
    /\ stats[w].rx_dgrams + stats[w].tx_dgrams < MaxTraffic
    /\ stats' = [stats EXCEPT ![w] =
                    IF dir = "rx"
                    THEN [@ EXCEPT !.rx_bytes = @ + 1, !.rx_dgrams = @ + 1]
                    ELSE [@ EXCEPT !.tx_bytes = @ + 1, !.tx_dgrams = @ + 1]]
    /\ UNCHANGED <<on_info_report_enabled, blocked, close_reason, close_1_called>>
    /\ EnvFrame

\* TcpTunnel::start, while it serves: it takes the stream found in the slot, or leaves
\* there a local client connection it accepted and could not forward
TcpTunnelStart(w, v) ==
    /\ posted' = {}
    /\ wpc[w] = "serving" /\ Mode(w) = "Out" /\ Upstream(w) = "Tcp"
    /\ pending_tcp_stream[w] # v
    /\ pending_tcp_stream' = [pending_tcp_stream EXCEPT ![w] = v]
    /\ UNCHANGED <<cfgVars, client_state, state_record, tableMaps, total_traffic_data, migTable,
                   inner_state_lock, wpc, wtask, loginVars, mig, rebinds, repVars, stopVars,
                   detached, after_return, on_info_report_enabled, blocked, connVars>>

\* the next step of a worker takes the state-table lock
WorkerWantsLock(w) ==
    wpc[w] \notin {"backoff", "serving", "done", "absent"}

\* a runtime task calls Mutex::lock while stop_async holds the guard: its thread blocks
Block(p) ==
    /\ posted' = {}
    /\ ~LockFree
    /\ CanRun(p)
    /\ IF p = Reporter THEN rpc # "exited" ELSE WorkerWantsLock(p)
    /\ blocked' = blocked \cup {p}
    /\ UNCHANGED <<on_info_report_enabled, connVars>>
    /\ EnvFrame

(* ---------------------------- specification --------------------------- *)
\* the configuration of the scenarios that are not about the TLS configuration:
\* a hostname with a port, pinned roots, a cipher that parses
TypicalConfig ==
    /\ cipher = "chacha20-poly1305"
    /\ cert_path = "ca.pem"
    /\ server_addr = <<"peer.example", ":", "4000">>
    /\ quic_timeout_ms = TypicalTimeout

\* a worker's steps when hop_interval_seconds = 0
WorkerStepNoHop(w) ==
    \/ ConnectFail(w) \/ Backoff(w) \/ LoginConnecting(w) \/ HandshakeFail(w)
    \/ QuicConnected(w) \/ OpenBiFail(w) \/ LoginConnected(w)
    \/ LoginRejected(w) \/ LoginSucceeded(w) \/ Register(w)
    \/ GetOrCreateServer(w) \/ BindFail(w) \/ BindOk(w) \/ SetTunneling(w)
    \/ ServeReturn(w) \/ Deregister(w) \/ LoopQuit(w)

WorkerStep(w) == WorkerStepNoHop(w) \/ MigSetSender(w) \/ MigSetHandle(w)

MigStep(t) == MigTickSkip(t) \/ MigTick(t) \/ MigExit(t)

ReporterStep == ReporterSumLive \/ ReporterAddTotal \/ ReporterPost

\* stop_async when no migration task was ever started
StopAsyncNoHop ==
    \/ StopAsyncBegin \/ SaSignal \/ SaJoin \/ SaClear \/ SaJoinTimeout \/ SaTerminated

StopAsyncStep == StopAsyncNoHop \/ SaAwaitDone \/ SaAwaitTimeout

StopSyncStep == StopBegin \/ StopClear \/ StopReturn

\* every operation of the client and of its environment
Next ==
    \/ \E w \in Tunnels : WorkerStep(w)
    \/ \E t \in MigTasks : MigStep(t)
    \/ ReporterStep
    \/ StopAsyncStep
    \/ StopSyncStep
    \/ \E k \in tasks \cup detached : RunTask(k)
    \/ \E b \in BOOLEAN : SetEnableOnInfoReport(b)
    \/ \E w \in Tunnels : ConnLost(w)
    \/ \E w \in Tunnels, dir \in {"rx", "tx"} : Traffic(w, dir)
    \/ \E p \in Procs : Block(p)

\* Scenario: every tunnel configured, port hopping off (hop_interval_seconds = 0), the host
\* calls stop / stop_async; the steps left out cannot happen with hop_interval_seconds = 0.
NextNoHop ==
    \/ \E w \in Tunnels : WorkerStepNoHop(w)
    \/ ReporterStep
    \/ StopAsyncNoHop
    \/ StopSyncStep
    \/ \E k \in tasks \cup detached : RunTask(k)
    \/ \E w \in Tunnels : ConnLost(w)

InitNoHop ==
    Init /\ TypicalConfig /\ hop_interval_seconds = 0 /\ wpc = Spawned(Cardinality(Tunnels))

Spec == InitNoHop /\ [][NextNoHop]_vars

\* Scenario: one tunnel configured, port hopping on, the host calls stop / stop_async.
NextHop ==
    \/ \E w \in Tunnels : WorkerStep(w)
    \/ \E t \in MigTasks : MigStep(t)
    \/ ReporterStep
    \/ StopAsyncStep
    \/ StopSyncStep
    \/ \E k \in tasks \cup detached : RunTask(k)
    \/ \E w \in Tunnels : ConnLost(w)
    \/ \E p \in Procs : Block(p)

InitHop ==
    Init /\ TypicalConfig /\ hop_interval_seconds > 0 /\ wpc = Spawned(1)

SpecHop == InitHop /\ [][NextHop]_vars

\* Scenario: every tunnel configured, port hopping on, the host never stops the client.
NextRace ==
    \/ \E w \in Tunnels : WorkerStep(w)
    \/ \E t \in MigTasks : MigTick(t) \/ MigExit(t)
    \/ ReporterStep
    \/ \E w \in Tunnels : ConnLost(w)

InitRace ==
    Init /\ TypicalConfig /\ hop_interval_seconds > 0 /\ wpc = Spawned(Cardinality(Tunnels))

SpecRace == InitRace /\ [][NextRace]_vars

\* Scenario: every tunnel configured, port hopping on, the host never stops the client.
\* The runtime polls a migration task whose stop_rx is ready, and select! picks among its
\* ready branches at random, hence the weak fairness of the exit step.
FairMigExit == \A t \in MigTasks : WF_vars(MigExit(t))

SpecRaceFair == InitRace /\ [][NextRace]_vars /\ FairMigExit

\* Scenario: one tunnel configured, port hopping on, the host calls stop / stop_async.
\* The runtime runs every task it has a free thread for, timers fire, and the host
\* thread runs on.
FairHop ==
    /\ FairMigExit
    /\ \A w \in Tunnels : WF_vars(WorkerStep(w))
    /\ WF_vars(ReporterStep)
    /\ WF_vars(StopAsyncStep)
    /\ WF_vars(StopSyncStep)
    /\ WF_vars(\E k \in tasks \cup detached : RunTask(k))

SpecHopFair == InitHop /\ [][NextHop]_vars /\ FairHop

\* Scenario: every tunnel configured, port hopping on or off as the configuration says,
\* the host never stops the client.
InitAnyHop ==
    Init /\ TypicalConfig /\ wpc = Spawned(Cardinality(Tunnels))

SpecAnyHop == InitAnyHop /\ [][NextRace]_vars

\* Scenario: one tunnel configured, port hopping off, traffic flows, the host switches
\* reporting on and off and never stops the client.
NextTraffic ==
    \/ \E w \in Tunnels : WorkerStepNoHop(w)
    \/ ReporterStep
    \/ \E b \in BOOLEAN : SetEnableOnInfoReport(b)
    \/ \E w \in Tunnels : ConnLost(w)
    \/ \E w \in Tunnels, dir \in {"rx", "tx"} : Traffic(w, dir)

InitTraffic ==
    Init /\ TypicalConfig /\ hop_interval_seconds = 0 /\ wpc = Spawned(1)

SpecTraffic == InitTraffic /\ [][NextTraffic]_vars

\* Scenario: one tunnel configured, port hopping off, the host stops the client with the
\* blocking stop() only. The runtime schedules every runnable task and the host thread
\* runs on, hence the weak fairness.
NextStop ==
    \/ \E w \in Tunnels : WorkerStepNoHop(w)
    \/ ReporterStep
    \/ StopSyncStep
    \/ \E k \in tasks \cup detached : RunTask(k)
    \/ \E w \in Tunnels : ConnLost(w)

FairStop ==
    /\ \A w \in Tunnels : WF_vars(WorkerStepNoHop(w))
    /\ WF_vars(ReporterStep)
    /\ WF_vars(StopSyncStep)
    /\ WF_vars(\E k \in tasks \cup detached : RunTask(k))

InitStop ==
    Init /\ TypicalConfig /\ hop_interval_seconds = 0 /\ wpc = Spawned(1)

SpecStop == InitStop /\ [][NextStop]_vars /\ FairStop

\* Scenario: one tunnel configured, port hopping off, local clients connect to the
\* listener while the link goes up and down; the host may stop the client with stop().
NextPending ==
    \/ \E w \in Tunnels : WorkerStepNoHop(w)
    \/ StopSyncStep
    \/ \E k \in tasks \cup detached : RunTask(k)
    \/ \E w \in Tunnels : ConnLost(w)
    \/ \E w \in Tunnels, v \in {None} \cup TcpStreams : TcpTunnelStart(w, v)

SpecPending == InitStop /\ [][NextPending]_vars

\* Scenario: one tunnel configured, port hopping off, any value of quic_timeout_ms, either
\* kind of build; the host may stop the client with stop().
NextTransport ==
    \/ \E w \in Tunnels : WorkerStepNoHop(w)
    \/ \E w \in Tunnels : PrepareOverflow(w)
    \/ StopSyncStep
    \/ \E k \in tasks \cup detached : RunTask(k)
    \/ \E w \in Tunnels : ConnLost(w)

InitTransport ==
    /\ Init /\ hop_interval_seconds = 0 /\ wpc = Spawned(1)
    /\ cipher = "chacha20-poly1305" /\ cert_path = "ca.pem"
    /\ server_addr = <<"peer.example", ":", "4000">>

SpecTransport == InitTransport /\ [][NextTransport]_vars

\* Scenario: one tunnel configured, port hopping off, any configuration of cipher,
\* certificate file and server address; the host may stop the client with stop().
InitConfig ==
    Init /\ hop_interval_seconds = 0 /\ wpc = Spawned(1) /\ quic_timeout_ms = TypicalTimeout

SpecConfig == InitConfig /\ [][NextStop]_vars

\* Scenario: one tunnel configured, port hopping off, the host switches reporting on and
\* off while the tunnel runs and while it stops the client with stop / stop_async.
NextTelemetry ==
    \/ \E w \in Tunnels : WorkerStepNoHop(w)
    \/ ReporterStep
    \/ StopAsyncNoHop
    \/ StopSyncStep
    \/ \E k \in tasks \cup detached : RunTask(k)
    \/ \E b \in BOOLEAN : SetEnableOnInfoReport(b)
    \/ \E w \in Tunnels : ConnLost(w)

SpecTelemetry == InitTraffic /\ [][NextTelemetry]_vars

(* ------------------------------ properties ---------------------------- *)
\* positions of a worker whose connection is registered: after the insert that follows
\* its login, up to the remove that follows the return of its serve routine
RegisteredSpan ==
    {"mig_sender", "mig_handle", "serve", "bind", "set_tunneling", "serving", "deregister"}

\* positions of a worker between its registration and the return of its serve routine
RegisteredServing == RegisteredSpan \ {"deregister"}

\* positions of a worker that holds no registration
Unregistered ==
    {"connect", "backoff", "handshake", "open_bi", "await_resp", "register", "loop_quit",
     "done"}

\* positions of the host thread inside stop_async
InStopAsync == {"sa_signal", "sa_join", "sa_await", "sa_clear", "sa_tasks"}

\* C1: client_state never leaves Terminated: once it is Terminated, no later step of any
\* worker, reporter or stop call moves it to another state.
C1_TerminatedAbsorbing ==
    [][client_state = "Terminated" => client_state' = "Terminated"]_vars

\* C2: once stop_async has returned, connections is empty and stays empty, and every
\* connection a worker still holds registered has been closed with application code 1.
C2_StopAsyncLeavesNoConnection ==
    last_returned = "stop_async" =>
        /\ \A a \in Addrs : connections[a] = None
        /\ \A w \in Tunnels : wpc[w] \in RegisteredSpan => w \in close_1_called

\* C3: stop_async never deadlocks: while a call of stop_async is in progress the client
\* can always take a further step, so the call can go on to Terminated and return.
C3_StopAsyncNeverDeadlocks ==
    spc \in InStopAsync => ENABLED NextHop

\* C4: after stop() is called, client_state is eventually Terminated.
C4_StopReachesTerminated ==
    (spc = "st_clear") ~> (client_state = "Terminated")

\* C5: a call of stop_async (or of stop) that returns when no worker has acted since the
\* previous call returned leaves the state table exactly as the previous call left it.
C5_SecondStopIsNoOp ==
    [][(after_return # {} /\ spc # "idle" /\ spc' = "idle")
           => after_return' = after_return]_vars

RegisteredAs(w) == {a \in Addrs : connections'[a] = w}

C8_ReportedTrafficMonotone ==
    [][\A f \in TrafficFields : last_traffic'[f] >= last_traffic[f]]_vars

\* C9: the deregistration of a connection adds the connection's final counters to
\* total_traffic_data in the step that removes it from connections.
C9_DeregisterFoldsCounters ==
    [][\A w \in Tunnels :
          (wpc[w] = "deregister" /\ wpc'[w] = "loop_quit") =>
              total_traffic_data' = AddTraffic(total_traffic_data, stats[w])]_vars

\* C10: at most one migration task is running at any time.
C10_OneMigrationTask ==
    Cardinality({t \in MigTasks : mig[t].st = "select"}) <= 1

\* C11: with hop_interval_seconds = 0 no migration ever happens: no worker is starting a
\* migration task, no task exists, migration_stop_sender and migration_handle are None
\* and no endpoint has been rebound.
C11_NoHopNoMigration ==
    hop_interval_seconds = 0 =>
        /\ \A w \in Tunnels : wpc[w] \notin {"mig_sender", "mig_handle"}
        /\ \A t \in MigTasks : mig[t] = FreeTask
        /\ migration_stop_sender = None
        /\ migration_handle = None
        /\ rebinds = {}

\* C11: hopping is off and every tunnel's worker has registered and is serving
C11_Witness ==
    /\ hop_interval_seconds = 0
    /\ \A w \in Tunnels : wpc[w] = "serving" /\ endpoints[local_server_addr(w)] = w

\* C12: shutdown stops migration: once stop_async has returned, no migration task is
\* left in its loop with a stop channel that was neither signalled nor dropped, so
\* every task that was started exits and none keeps rebinding.
C12_ShutdownStopsMigration ==
    last_returned = "stop_async" =>
        \A t \in MigTasks : mig[t].st = "select" => mig[t].chan # "open"

\* C13: the state-table mutex is never held across a suspension point: whenever an
\* operation of the client is suspended at an await, no guard of the mutex is alive.
C13_LockNeverAcrossAwait ==
    inner_state_lock = "free"

\* positions of a worker inside the retried connect closure or its backoff sleep
ConnectLoop == {"connect", "backoff", "handshake", "open_bi", "await_resp"}

\* C14: connection establishment is retried without bound: a failed attempt is followed
\* by the backoff sleep and another attempt unless should_quit() is true at the
\* failure, and a worker leaves its connect loop either with a connection to register
\* or, without one, only when should_quit() is true.
C14_RetryUnlessQuit ==
    [][\A w \in Tunnels :
          /\ (wpc[w] \in {"connect", "handshake", "open_bi", "await_resp"}
                  /\ wpc'[w] \in {"backoff", "done"})
                 => (wpc'[w] = "done" <=> should_quit)
          /\ (wpc[w] = "backoff" /\ wpc'[w] # "backoff") => wpc'[w] = "connect"
          /\ (wpc[w] \in ConnectLoop /\ wpc'[w] \notin ConnectLoop)
                 => \/ wpc'[w] = "register" /\ close_reason[w] = "none"
                    \/ wpc'[w] = "done" /\ should_quit]_vars

\* C14: every worker has failed an attempt and sleeps before the next one
C14_Witness ==
    /\ ~should_quit
    /\ \A w \in Tunnels : wpc[w] = "backoff"

\* C15: a configuration error is fatal for the tunnel: when the login configuration
\* cannot be built (cipher, certificate file), the worker's attempt ends with the worker
\* leaving its loop, not with a retry.
C15_ConfigErrorIsFatal ==
    [][\A w \in Tunnels :
          (~parse_client_config_and_domain.ok /\ wpc[w] = "connect" /\ wpc'[w] # "connect")
              => wpc'[w] = "done"]_vars

\* C16: telemetry is gated by on_info_report_enabled. The flag is false for a new client
\* and only set_enable_on_info_report changes it; a step delivers a TunnelState, TunnelLog
\* or TunnelTraffic record to the listener only if the flag is true when it posts, so
\* nothing is delivered before set_enable_on_info_report(true).
C16_TelemetryGated ==
    /\ ~on_info_report_enabled /\ posted = {} /\ last_traffic = ZeroTraffic
    /\ [][/\ posted' \subseteq TunnelInfoTypes
          /\ posted' # {} => on_info_report_enabled /\ on_info_report_enabled'
          /\ last_traffic' # last_traffic => on_info_report_enabled
          /\ on_info_report_enabled' # on_info_report_enabled =>
                 /\ posted' = {}
                 /\ UNCHANGED <<client_state, state_record, wpc, rpc, spc, last_traffic>>]_vars
\* the worker has posted its states, its logs and its quit log, stop_async has posted
\* Stopping and Terminated, the reporter its last record: nothing is delivered, flag false
C16_Witness ==
    /\ ~on_info_report_enabled /\ posted = {} /\ last_traffic = ZeroTraffic
    /\ client_state = "Terminated"
    /\ rpc = "exited"
    /\ \E w \in Tunnels : wpc[w] = "done"

\* C17: shutdown drains the whole state table. The clearing step of stop_async (third
\* lock) and of stop (its one lock) leaves connections, endpoints, tcp_servers and
\* udp_servers empty and migration_stop_sender and migration_handle None.
C17_ShutdownDrainsTable ==
    [][(spc \in {"sa_clear", "st_clear"} /\ spc' # spc) =>
          /\ \A a \in Addrs : connections'[a] = None /\ endpoints'[a] = None
          /\ tcp_servers' = {} /\ udp_servers' = {}
          /\ migration_stop_sender' = None /\ migration_handle' = None]_vars

\* the host of a server address: what stands before ":port", or all of it without a port
HostOf(addr) ==
    IF Len(addr) >= 3 /\ addr[Len(addr) - 1] = ":" /\ addr[Len(addr)] \in Ports
         /\ addr \notin Ipv6Literals
    THEN SubSeq(addr, 1, Len(addr) - 2)
    ELSE addr
\* the server is given by a literal IPv4 or IPv6 address, with or without a port
IsLiteralAddress(addr) ==
    HostOf(addr) \in {<<ip>> : ip \in Ipv4Literals} \cup Ipv6Literals
                        \cup {<<"[">> \o ip \o <<"]">> : ip \in Ipv6Literals}

\* C18: the LoginConfig a worker logs in with has the accept-any verifier if and only if
\* cert_path is empty and server_addr is a literal address, and then the server name is
\* "localhost"; with an empty cert_path and a hostname it has the platform verifier and
\* the hostname as server name; with a cert_path it has the pinned roots and the host
\* part of server_addr as server name.
C18_VerifierSelection ==
    \A w \in Tunnels : login_cfg[w] # NoLoginConfig =>
        LET cfg == login_cfg[w]
            literal == IsLiteralAddress(server_addr)
        IN  /\ cfg.verifier = "insecure" <=> (cert_path = "" /\ literal)
            /\ cfg.verifier = "insecure" => cfg.domain = <<"localhost">>
            /\ (cert_path = "" /\ ~literal) =>
                   cfg.verifier = "platform" /\ cfg.domain = HostOf(server_addr)
            /\ cert_path # "" =>
                   cfg.verifier = "pinned" /\ cfg.domain = HostOf(server_addr)

\* a migration task that is spawned and has not yet exited
Runnable(t) == mig[t].st = "select"

\* C19: migration_stop_sender is Some if and only if a migration task is still runnable,
\* and the stop sender of every runnable migration task is the one stored in the table.
C19_SenderIffRunnable ==
    /\ migration_stop_sender # None <=> \E t \in MigTasks : Runnable(t)
    /\ \A t \in MigTasks : Runnable(t) => migration_stop_sender = t

\* C20: once stop or stop_async has been called, every tunnel worker eventually leaves
\* its connect/serve loop (and posts its quit log, the last thing it does).
C20_WorkersQuitAfterStop ==
    (stop_calls > 0) ~> (\A w \in Tunnels : wpc[w] \in {"done", "absent"})

\* C21: login returns a connection only on a success response. A RespFailure makes the
\* attempt fail with the login error, any other answer that is not a success makes it
\* fail as an unexpected response; a failed attempt inserts nothing into connections or
\* endpoints and does not touch client_state, and a worker inside its connect loop has
\* no entry of its own in the table.
C21_LoginOnlyOnSuccess ==
    /\ [](\A w \in Tunnels : wpc[w] \in ConnectLoop =>
             \A a \in Addrs : connections[a] # w /\ endpoints[a] # w)
    /\ [][\A w \in Tunnels : (wpc[w] = "await_resp" /\ wpc'[w] # "await_resp") =>
             /\ login_resp'[w] = "RespFailure" => login_err'[w] = "failed to login"
             /\ login_resp'[w] \notin {"RespSuccess", "RespFailure", "RecvError"} =>
                    login_err'[w] = "unexpected response"
             /\ wpc'[w] = "register" => login_resp'[w] = "RespSuccess"
             /\ login_resp'[w] # "RespSuccess" =>
                    /\ wpc'[w] \in {"backoff", "done"}
                    /\ close_reason'[w] = "unborn"
                    /\ UNCHANGED <<connections, endpoints, client_state, state_record>>]_vars
\* one worker was answered RespFailure, the other something that is no response at all
C21_Witness ==
    /\ \E w \in Tunnels :
          wpc[w] = "backoff" /\ login_resp[w] = "RespFailure"
              /\ login_err[w] = "failed to login"
    /\ \E w \in Tunnels :
          wpc[w] = "backoff" /\ login_resp[w] = "ReqLogin"
              /\ login_err[w] = "unexpected response"

\* C22: within a login attempt client_state is set to Connected as soon as the QUIC
\* connection is open, before the login stream is opened: the step that opens the
\* connection sets Connected, so that a failure to open the stream comes after it.
C22_ConnectedBeforeStream ==
    [][\A w \in Tunnels :
          (wpc[w] = "handshake" /\ close_reason[w] # "none" /\ close_reason'[w] = "none")
              => client_state' = "Connected"]_vars

\* C23: a client_state transition and its TunnelState record are one critical section.
\* With reporting enabled, every step that assigns client_state delivers a TunnelState
\* record, every TunnelState record delivered carries the value just assigned, and no
\* step delivers a TunnelState record without assigning: the records are the assigned
\* values, in the order of the assignments.
C23_StateRecordsFollowState ==
    [][/\ "TunnelState" \in posted' => state_record' = client_state'
       /\ (on_info_report_enabled /\ client_state' # client_state) =>
              "TunnelState" \in posted'
       /\ state_record' # state_record => "TunnelState" \in posted']_vars
\* with reporting enabled the worker has set Tunneling, stop_async has set Stopping
\* over it, and the listener's last record is Stopping
C23_Witness ==
    /\ on_info_report_enabled
    /\ client_state = "Stopping" /\ state_record = "Stopping"
    /\ \E w \in Tunnels : wpc[w] = "serving"
    /\ spc \in InStopAsync

\* C24: the traffic reporter exits when the client stops: once stop has been called (and
\* client_state has been Stopping), the reporter eventually leaves its loop.
C24_ReporterExitsAfterStop ==
    (stop_calls > 0) ~> (rpc = "exited")

ServerKeysNext(w) == IF Upstream(w) = "Tcp" THEN tcp_servers' ELSE udp_servers'

\* C26: the local listener of an Out tunnel is shared across reconnects. A worker binds
\* only when nothing is stored under its local_server_addr, with a stored listener it
\* goes on to serve without binding, a stored listener stays stored until stop or
\* stop_async clears the table, and a failed bind stores nothing and ends the serve
\* routine without setting Tunneling.
C26_ListenerSharedAcrossReconnects ==
    [][\A w \in Tunnels :
          LET addr == local_server_addr(w)
          IN  /\ (wpc[w] = "serve" /\ wpc'[w] = "bind") => addr \notin ServerKeys(w)
              /\ (wpc[w] = "serve" /\ wpc'[w] # "serve" /\ Mode(w) = "Out"
                      /\ addr \in ServerKeys(w))
                     => wpc'[w] = "set_tunneling" /\ UNCHANGED <<tcp_servers, udp_servers>>
              /\ (addr \in ServerKeys(w) /\ addr \notin ServerKeysNext(w))
                     => spc \in {"sa_clear", "st_clear"} /\ spc' # spc
              /\ (wpc[w] = "bind" /\ wpc'[w] \notin {"bind", "set_tunneling"})
                     => /\ wpc'[w] = "deregister"
                        /\ UNCHANGED <<tcp_servers, udp_servers, client_state>>]_vars
\* a later iteration of the loop: logged in again and registered, no stop so far, the
\* listener of the first iteration is stored
C26_Witness ==
    \E w \in Tunnels :
        /\ wpc[w] = "serve" /\ Mode(w) = "Out"
        /\ local_server_addr(w) \in ServerKeys(w)
        /\ stop_calls = 0
\* C27: the reconnect loop never clears or replaces a worker's pending_tcp_stream
\* slot: only the TCP tunnel of an Out+Tcp worker, while it serves, changes the slot,
\* so what one serve call leaves there is what the next one finds, however many
\* connect attempts fail in between.
C27_PendingSlotSurvivesReconnects ==
    [][\A w \in Tunnels :
          pending_tcp_stream'[w] # pending_tcp_stream[w]
              => /\ wpc[w] = "serving" /\ wpc'[w] = "serving"
                 /\ Mode(w) = "Out" /\ Upstream(w) = "Tcp"]_vars

\* a stream left in the slot is still there after the serve call returned and a
\* connect attempt of the next iteration failed
C27_Witness ==
    \E w \in Tunnels :
        /\ pending_tcp_stream[w] \in TcpStreams
        /\ wpc[w] = "backoff" /\ login_err[w] # "none"

\* two thirds of a number of milliseconds, rounded down
TwoThirds(x) == Norm(Div3(Mul2(x, 0), 0))

\* C28: whenever a LoginConfig has been prepared, for quic_timeout_ms > 0 the max idle
\* timeout of its transport is quic_timeout_ms and the keep-alive interval is two
\* thirds of that max idle timeout; for quic_timeout_ms = 0 neither is set.
C28_KeepAliveTwoThirdsOfIdle ==
    \A w \in Tunnels : login_cfg[w] # NoLoginConfig =>
        IF Norm(quic_timeout_ms) # <<>>
        THEN /\ login_cfg[w].max_idle_timeout = <<Norm(quic_timeout_ms)>>
             /\ login_cfg[w].keep_alive_interval =
                    <<TwoThirds(login_cfg[w].max_idle_timeout[1])>>
        ELSE /\ login_cfg[w].max_idle_timeout = <<>>
             /\ login_cfg[w].keep_alive_interval = <<>>

\* C29: every address that has a registered connection has a registered endpoint.
C29_ConnectionsWithinEndpoints ==
    \A a \in Addrs : connections[a] # None => endpoints[a] # None

\* a stop call cleared the connection of a worker that still serves; its endpoint stays
C29_Witness ==
    \E w \in Tunnels :
        /\ wpc[w] = "serving" /\ stop_calls > 0
        /\ connections[local_server_addr(w)] = None
        /\ endpoints[local_server_addr(w)] = w

\* a step taken while a guard of the state table is alive rebinds no endpoint and
\* leaves every migration task that has not been told to stop in its select
SkipsTickWhileLocked ==
    inner_state_lock # "free" =>
        /\ rebinds' = rebinds
        /\ \A t \in MigTasks :
              (mig[t].st = "select" /\ mig[t].chan = "open") => mig'[t] = mig[t]

\* C30: the migration task never blocks on the state-table mutex: a tick that finds
\* the lock held rebinds nothing and leaves the task waiting, and a task whose stop
\* signal fired can leave its loop even while stop_async holds the lock.
C30_MigrationNeverBlocksOnLock ==
    /\ [](\A t \in MigTasks :
            (inner_state_lock = "stop_async" /\ mig[t].st = "select" /\ mig[t].chan # "open")
                => ENABLED MigExit(t))
    /\ [][SkipsTickWhileLocked]_vars

\* C31: a migration task exits once its one-shot receiver completes, whether a stop
\* value was sent or the matching sender was dropped (overwritten by a later start, or
\* set to None without sending): a task in its loop whose receiver has completed
\* eventually leaves the loop, and a task leaves its loop for no other reason.
C31_ExitsOnCompletedReceiver ==
    /\ \A t \in MigTasks :
          (mig[t].st = "select" /\ mig[t].chan \in {"sent", "dropped"}) ~> (mig[t].st # "select")
    /\ [][\A t \in MigTasks :
            (mig[t].st = "select" /\ mig'[t].st # "select") => mig[t].chan \in {"sent", "dropped"}]_vars

\* C32: a worker whose login succeeded while should_quit() is true at the check after
\* the retry leaves its loop: nothing is inserted into connections or endpoints and no
\* migration task is started; a worker goes on to the registration only from a check
\* that saw should_quit() false, and only the registration inserts its connection.
C32_QuitCheckBeforeInsert ==
    [][\A w \in Tunnels :
          /\ (wpc[w] = "await_resp" /\ wpc'[w] \notin ConnectLoop /\ should_quit)
                 => /\ wpc'[w] = "done"
                    /\ UNCHANGED <<connections, endpoints, mig, migTable>>
          /\ (wpc[w] # "register" /\ wpc'[w] = "register")
                 => wpc[w] = "await_resp" /\ ~should_quit
          /\ (connections[local_server_addr(w)] # w /\ connections'[local_server_addr(w)] = w)
                 => wpc[w] = "register"]_vars

\* a worker's login succeeded with a stop under way: it has left its loop, nothing of it
\* is registered and no migration task was started
C32_Witness ==
    \E w \in Tunnels :
        /\ wpc[w] = "done" /\ login_resp[w] = "RespSuccess"
        /\ connections[local_server_addr(w)] = None
        /\ endpoints[local_server_addr(w)] = None
        /\ \A t \in MigTasks : mig[t].st = "free"

====
